---- MODULE Spec2Model ----
(***************************************************************************)
(* A model of core_arena (src/src/core_arena.c): a fixed-count pool of     *)
(* bump allocators on top of malloc, with a process-wide memory budget.    *)
(*                                                                         *)
(* A chunk is a block obtained from malloc; it is named by the ordinal of  *)
(* the malloc call that returned it (1, 2, ...) and addresses inside it    *)
(* are byte offsets from its base, so a pointer is a pair (chunk, offset). *)
(* malloc returns blocks aligned to MAX_ALIGN, so a pointer is aligned     *)
(* exactly when its offset is.  size_t and ptrdiff_t are modelled with     *)
(* WordBits bits instead of 64: every wrap-around of the C code happens    *)
(* at the same expression, at 2^WordBits.                                  *)
(***************************************************************************)
EXTENDS Integers, Sequences, FiniteSets, TLC

(* ------------------------------------------------------------------ *)
(* Program constants                                                   *)
(* ------------------------------------------------------------------ *)

MAX_ALIGN == 16

MALLOC_PTR_SIZE == 8

\* sizeof(Arena): next (8), chunk_sz (8), begin and end each aligned to 16.
AHS == 48

\* 128 * 1024: chunks at least this large are accounted as mmapped.
c128K == 131072

NO_ARENA_LOGGING == 0

LOG_CHUNK_MALLOCS == 1

FULL_ARENA_LOGGING == 2

\* The null pointer, and the address of the sentinel &first[n] as a cursor.
NULL == 0

SENTINEL == -1

\* Width of size_t / ptrdiff_t in the model.
WordBits == 20

SIZE_MOD == 2 ^ WordBits

SIZE_MAX == SIZE_MOD - 1

PTRDIFF_MAX == (SIZE_MOD \div 2) - 1

\* sizeof(size_t), sizeof(Arena *)
SIZEOF_WORD == 8

(* ------------------------------------------------------------------ *)
(* Bounds of the model                                                 *)
(* ------------------------------------------------------------------ *)

\* arena_init_arenas(count) is called with count in 1..MaxArenas.
MaxArenas == 2

\* At most this many successful malloc calls for chunks in one run.
MaxChunks == 3

\* At most this many requests of one lifetime are recorded for a replay.
MaxScript == 3

\* What sysconf reports as available physical memory (pages * page size).
RamAvail == {4, 520}

\* chunk_sz arguments of arena_create.
ChunkSizes == {0, 16, 60, 72, 424, 8192, PTRDIFF_MAX + 1}

\* mem_sz arguments of arena_alloc.
MemSizes == {0, 10, 304, PTRDIFF_MAX + 1}

\* (nelem, mem_sz) arguments of arena_calloc.
CallocArgs == {<<0, 8>>, <<2, 5>>, <<3, 0>>, <<SIZE_MAX \div 2, 3>>}

LogLevels == {NO_ARENA_LOGGING, LOG_CHUNK_MALLOCS, FULL_ARENA_LOGGING}

\* mem_sz arguments of the requests that are recorded and replayed.
WarmSizes == {10, 100, 304}

\* chunk_sz arguments of arena_create where requests are replayed: one more
\* size, whose first chunk has room for several requests.
WarmChunkSizes == ChunkSizes \cup {140}

\* At most this many successful malloc calls for chunks in one run where
\* the memory contents are followed.
ZeroChunks == 2

(* ------------------------------------------------------------------ *)
(* State                                                               *)
(* ------------------------------------------------------------------ *)

VARIABLES
    status,                    \* "running", or how the process ended
    arenas_initialized,
    ARENAS_MAX,
    ARENAS_MAX_ALLOC,
    core_arena_log_level,
    tot_mem_usage,
    first,                     \* sentinel heads: [next, chunk_sz] per arena
    arenas,                    \* cursor per arena: NULL, SENTINEL or a chunk
    heap,                      \* every chunk malloc ever returned
    bytes,                     \* per chunk: the offsets of its non-zero bytes
    dirty_heap,                \* malloc returns blocks of non-zero bytes
    arenas_mem_malloced,
    arenas_mem_malloced_count,
    arenas_mem_mmapped,
    lifecycle,                 \* history: the arena's state of spec section 4.3
    base,                      \* history: the used counter without arena n
    last,                      \* history: the last call and its result
    script,                    \* history: the requests of arena 0's lifetime
    replay                     \* history: how many of them were replayed

vars == <<status, arenas_initialized, ARENAS_MAX, ARENAS_MAX_ALLOC,
          core_arena_log_level, tot_mem_usage, first, arenas, heap, bytes,
          dirty_heap, arenas_mem_malloced, arenas_mem_malloced_count,
          arenas_mem_mmapped, lifecycle, base, last, script, replay>>

registry == <<arenas_initialized, ARENAS_MAX, ARENAS_MAX_ALLOC,
              core_arena_log_level>>

stats == <<arenas_mem_malloced, arenas_mem_malloced_count, arenas_mem_mmapped>>

warm == <<script, replay>>

(* ------------------------------------------------------------------ *)
(* Arithmetic of the C types                                           *)
(* ------------------------------------------------------------------ *)

\* Conversion to size_t, and the result of unsigned arithmetic.
ToUnsigned(x) == x % SIZE_MOD

\* Conversion of a size_t to ssize_t / ptrdiff_t / long long.
ToSigned(u) == IF u > PTRDIFF_MAX THEN u - SIZE_MOD ELSE u

\* -x & (MAX_ALIGN - 1)
Padding(x) == (-x) % MAX_ALIGN

MAX(a, b) == IF a > b THEN a ELSE b

ArenaIds == 0 .. (ARENAS_MAX - 1)

(* ------------------------------------------------------------------ *)
(* Chunks and chains                                                   *)
(* ------------------------------------------------------------------ *)

ChunkIds == 1 .. Len(heap)

\* A chunk still owned by the process: malloc returned it, free was not called.
Live(c) == heap[c].frees = 0

\* ap->next, where ap is a chunk of h or the sentinel of arena n.
NextOf(h, fnext, ap) == IF ap = SENTINEL THEN fnext ELSE h[ap].next

\* ap->begin and ap->end as offsets; the sentinel's are the zeroes of calloc.
BeginOf(h, ap) == IF ap = SENTINEL THEN 0 ELSE h[ap].begin

EndOf(h, ap) == IF ap = SENTINEL THEN 0 ELSE h[ap].end

\* The chunks linked from chunk c on, following next.
RECURSIVE ChainFrom(_, _)
ChainFrom(h, c) == IF c = NULL THEN <<>> ELSE <<c>> \o ChainFrom(h, h[c].next)

\* The chain of arena n, from its sentinel's first chunk.
ChainOf(n) == ChainFrom(heap, first[n].next)

Range(s) == {s[i] : i \in 1 .. Len(s)}

RECURSIVE SumSizes(_)
SumSizes(S) == IF S = {} THEN 0
               ELSE LET c == CHOOSE x \in S : TRUE
                    IN heap[c].size + SumSizes(S \ {c})

(* ------------------------------------------------------------------ *)
(* arena_init_arenas                                                    *)
(* ------------------------------------------------------------------ *)

\* The amounts arena_init_arenas adds to tot_mem_usage, in order: first,
\* arenas (charged with sizeof(Arena) per entry), arena_chunk_sz, and the
\* logging arrays of the level.
RegistryCharges(count, level) ==
    <<count * AHS, count * AHS, count * SIZEOF_WORD>>
    \o (IF level >= LOG_CHUNK_MALLOCS
        THEN [i \in 1 .. 4 |-> count * SIZEOF_WORD] ELSE <<>>)
    \o (IF level >= FULL_ARENA_LOGGING
        THEN [i \in 1 .. 2 |-> count * SIZEOF_WORD] ELSE <<>>)

\* The bytes calloc is asked for: arenas holds pointers, not Arena structs.
RegistryHeld(count, level) ==
    count * AHS + count * SIZEOF_WORD + count * SIZEOF_WORD
    + (IF level >= LOG_CHUNK_MALLOCS THEN 4 * count * SIZEOF_WORD ELSE 0)
    + (IF level >= FULL_ARENA_LOGGING THEN 2 * count * SIZEOF_WORD ELSE 0)

\* CHECK_MEM_AVAIL: the request is refused.
CHECK_MEM_AVAIL(used, ceiling, mem_need) == used > ToUnsigned(ceiling - mem_need)

\* The charges applied in order; refused as soon as one check fails.
RECURSIVE ChargeAll(_, _, _)
ChargeAll(charges, used, ceiling) ==
    IF charges = <<>> THEN [ok |-> TRUE, used |-> used]
    ELSE IF CHECK_MEM_AVAIL(used, ceiling, Head(charges))
         THEN [ok |-> FALSE, used |-> used]
         ELSE ChargeAll(Tail(charges), ToUnsigned(used + Head(charges)), ceiling)

NoCall == [op |-> "none", n |-> 0, sz |-> 0, nelem |-> 0, elsz |-> 0,
           outcome |-> "ok", chunk |-> NULL, off |-> 0, granted |-> 0,
           need |-> 0, used |-> 0, ceiling |-> 0, phase |-> "none",
           freed |-> {}, stale |-> 0]

\* base[n] when the history of arena n does not define it: no size_t.
Untracked == SIZE_MOD

\* replay when no replay is under way: past every script.
Idle == MaxScript + 1

\* The process before its first call.
Boot ==
    /\ status = "running"
    /\ arenas_initialized = FALSE
    /\ ARENAS_MAX = 0
    /\ ARENAS_MAX_ALLOC = 0
    /\ core_arena_log_level = NO_ARENA_LOGGING
    /\ tot_mem_usage = 0
    /\ first = <<>>
    /\ arenas = <<>>
    /\ heap = <<>>
    /\ arenas_mem_malloced = <<>>
    /\ arenas_mem_malloced_count = <<>>
    /\ arenas_mem_mmapped = <<>>
    /\ lifecycle = <<>>
    /\ base = <<>>
    /\ last = NoCall
    /\ script = <<>>
    /\ replay = Idle
    /\ bytes = <<>>

\* malloc hands out zero pages.
Init == Boot /\ dirty_heap = FALSE

\* The call ends the process: exit(EXIT_FAILURE), abort() or a failed assert,
\* or the fault of a null pointer dereference.  The memory of the process
\* is gone with it: what remains is how it ended and the call that ended it.
Terminate(kind, call) ==
    /\ status' = kind
    /\ last' = [call EXCEPT !.outcome = kind]
    /\ arenas_initialized' = FALSE
    /\ ARENAS_MAX' = 0
    /\ ARENAS_MAX_ALLOC' = 0
    /\ core_arena_log_level' = NO_ARENA_LOGGING
    /\ tot_mem_usage' = 0
    /\ first' = <<>>
    /\ arenas' = <<>>
    /\ heap' = <<>>
    /\ arenas_mem_malloced' = <<>>
    /\ arenas_mem_malloced_count' = <<>>
    /\ arenas_mem_mmapped' = <<>>
    /\ lifecycle' = <<>>
    /\ base' = <<>>
    /\ bytes' = <<>>
    /\ UNCHANGED dirty_heap

\* A build in which assert( arenas_initialized == true ) tests nothing.
AssertCompiledOut == FALSE

\* assert( arenas_initialized == true ) fails: the first statement of every
\* public operation but arena_init_arenas.
NotInitialized == ~arenas_initialized

\* The caller's view of a call: which operation, on which arena, with what.
Call(op, n, sz) ==
    [NoCall EXCEPT !.op = op, !.n = n, !.sz = sz, !.used = tot_mem_usage,
                   !.ceiling = ARENAS_MAX_ALLOC,
                   !.phase = IF arenas_initialized /\ n \in ArenaIds
                             THEN lifecycle[n] ELSE "none"]

\* arena_init_arenas(count), run once, with what the platform reports as
\* available memory and CORE_ARENA_LOG_LEVEL in the environment.
arena_init_arenas(count, avail, level, callocOk) ==
    /\ status = "running"
    /\ ~arenas_initialized
    /\ LET r == ChargeAll(RegistryCharges(count, level), tot_mem_usage, avail)
           ids == 0 .. (count - 1)
       IN IF r.ok /\ callocOk
             THEN /\ ARENAS_MAX' = count
                  /\ ARENAS_MAX_ALLOC' = avail
                  /\ heap' = heap
                  /\ UNCHANGED <<bytes, dirty_heap>>
                  /\ tot_mem_usage' = r.used
                  /\ core_arena_log_level' = level
                  /\ first' = [i \in ids |-> [next |-> NULL, chunk_sz |-> 0]]
                  /\ arenas' = [i \in ids |-> NULL]
                  /\ arenas_mem_malloced' = [i \in ids |-> 0]
                  /\ arenas_mem_malloced_count' = [i \in ids |-> 0]
                  /\ arenas_mem_mmapped' = [i \in ids |-> 0]
                  /\ lifecycle' = [i \in ids |-> "Uninitialized"]
                  /\ base' = [i \in ids |-> Untracked]
                  /\ arenas_initialized' = TRUE
                  /\ status' = "running"
                  /\ last' = [NoCall EXCEPT !.op = "init", !.n = count]
             ELSE Terminate("exit", [NoCall EXCEPT !.op = "init", !.n = count])

(* ------------------------------------------------------------------ *)
(* History variables                                                   *)
(* ------------------------------------------------------------------ *)

\* base[m] is the value tot_mem_usage would have had arena m never been
\* used: set at the first create of m, moved along with what the other
\* arenas add and remove.  own is the new value for arena n itself.
BaseAfter(n, newTot, own) ==
    [m \in ArenaIds |->
        IF m = n THEN own
        ELSE IF base[m] = Untracked THEN Untracked
        ELSE ToUnsigned(base[m] + newTot - tot_mem_usage)]

(* ------------------------------------------------------------------ *)
(* _arena_init and arena_create                                         *)
(* ------------------------------------------------------------------ *)

\* The chunk size as it was passed to arena_create.
EffectiveChunkSizeRaw(chunk_sz) == ToSigned(chunk_sz)

\* The effective chunk size: chunk_sz less malloc's pointer, rounded down
\* to a multiple of MAX_ALIGN.
EffectiveChunkSize(chunk_sz) ==
    LET chunk_pd == ToSigned(chunk_sz) - MALLOC_PTR_SIZE
        padding == Padding(chunk_pd)
    IN IF padding # 0 THEN chunk_pd - (MAX_ALIGN - padding) ELSE chunk_pd

\* _arena_init with the first of its two budget tests only.
InitBudgetSizeTestOnly(chunk_pd) ==
    chunk_pd > ToSigned(ToUnsigned(ARENAS_MAX_ALLOC - MALLOC_PTR_SIZE))

\* The two budget tests of _arena_init: the chunk is refused.
InitBudgetRefuses(chunk_pd) ==
    \/ chunk_pd > ToSigned(ToUnsigned(ARENAS_MAX_ALLOC - MALLOC_PTR_SIZE))
    \/ tot_mem_usage > ToUnsigned(ARENAS_MAX_ALLOC - (chunk_pd + MALLOC_PTR_SIZE))

\* The size test with < for <=.
TooSmallStrict(chunk_pd) == chunk_pd < AHS

\* The effective chunk size leaves nothing after the header: exit.
TooSmall(chunk_pd) == chunk_pd <= AHS

\* _arena_init up to its malloc: it ends the process, or calls
\* malloc(chunk_pd).
_arena_init(chunk_sz) ==
    LET chunk_pd == EffectiveChunkSize(chunk_sz)
    IN IF ToSigned(chunk_sz) < MALLOC_PTR_SIZE + MAX_ALIGN
          THEN [outcome |-> "abort", chunk_pd |-> 0]
       ELSE IF TooSmall(chunk_pd) THEN [outcome |-> "exit", chunk_pd |-> 0]
       ELSE IF InitBudgetRefuses(chunk_pd)
          THEN [outcome |-> "exit", chunk_pd |-> chunk_pd]
       ELSE [outcome |-> "malloc", chunk_pd |-> chunk_pd]

\* A chunk as _arena_init sets it up.
FirstChunk(chunk_pd) ==
    [size |-> chunk_pd, next |-> NULL, chunk_sz |-> chunk_pd,
     begin |-> AHS, end |-> chunk_pd, frees |-> 0]

\* What malloc leaves in the bytes after the header of a chunk, up to the
\* limit the chunk is given.
Fresh(chunk) == IF dirty_heap THEN AHS .. (chunk.end - 1) ELSE {}

\* The chunk accounting of the logging system, for a chunk of sz bytes.
LogChunk(n, sz) ==
    IF core_arena_log_level >= LOG_CHUNK_MALLOCS
    THEN IF sz < c128K
         THEN /\ arenas_mem_malloced' = [arenas_mem_malloced EXCEPT ![n] = @ + sz]
              /\ arenas_mem_malloced_count' =
                     [arenas_mem_malloced_count EXCEPT ![n] = @ + 1]
              /\ UNCHANGED arenas_mem_mmapped
         ELSE /\ arenas_mem_mmapped' = [arenas_mem_mmapped EXCEPT ![n] = @ + sz]
              /\ UNCHANGED <<arenas_mem_malloced, arenas_mem_malloced_count>>
    ELSE UNCHANGED stats

\* arena_create(n, chunk_sz).  The malloc of _arena_init may return NULL:
\* arena_create stores it in first[n].next and reads first[n].next->chunk_sz.
arena_create(n, chunk_sz) ==
    /\ status = "running"
    /\ LET call == Call("create", n, chunk_sz)
       IN IF NotInitialized \/ n >= ARENAS_MAX
             \/ chunk_sz = 0 \/ chunk_sz > PTRDIFF_MAX
          THEN Terminate("abort", call)
          ELSE LET r == _arena_init(chunk_sz)
                   c == Len(heap) + 1
               IN IF r.outcome # "malloc"
                  THEN Terminate(r.outcome, [call EXCEPT !.need = r.chunk_pd])
                  ELSE \/ Terminate("segv", [call EXCEPT !.need = r.chunk_pd])
                       \/ /\ Len(heap) < MaxChunks
                          /\ heap' = Append(heap, FirstChunk(r.chunk_pd))
                          /\ bytes' = Append(bytes, Fresh(FirstChunk(r.chunk_pd)))
                          /\ UNCHANGED dirty_heap
                          /\ tot_mem_usage' = ToUnsigned(tot_mem_usage + r.chunk_pd)
                          /\ LogChunk(n, r.chunk_pd)
                          /\ first' = [first EXCEPT ![n] =
                                          [next |-> c, chunk_sz |-> r.chunk_pd]]
                          /\ arenas' = [arenas EXCEPT ![n] = c]
                          /\ lifecycle' = [lifecycle EXCEPT ![n] = "Configured"]
                          /\ base' = BaseAfter(n, tot_mem_usage',
                                        CASE lifecycle[n] = "Uninitialized" -> tot_mem_usage
                                          [] lifecycle[n] = "Destroyed" -> base[n]
                                          [] OTHER -> Untracked)
                          /\ status' = "running"
                          /\ last' = [call EXCEPT !.outcome = "ok",
                                         !.granted = r.chunk_pd,
                                         !.need = r.chunk_pd]
                          /\ UNCHANGED registry

(* ------------------------------------------------------------------ *)
(* arena_dealloc and arena_destroy                                      *)
(* ------------------------------------------------------------------ *)

\* An arena_dealloc that resets the bump cursor of every chunk of the chain.
RewoundWholeChain(n) ==
    [c \in ChunkIds |->
        IF c \in Range(ChainOf(n)) THEN [heap[c] EXCEPT !.begin = AHS]
        ELSE heap[c]]

\* The chunks after arenas[n]->begin = (char *)arenas[n] + sizeof *arenas[n]
\* with arenas[n] the first chunk of the chain.
Rewound(n) == [heap EXCEPT ![first[n].next].begin = AHS]

arena_dealloc(n) ==
    /\ status = "running"
    /\ LET call == Call("dealloc", n, 0)
       IN IF NotInitialized \/ n >= ARENAS_MAX
          THEN /\ Terminate("abort", call)
          ELSE /\ IF first[n].next # NULL
                  THEN /\ arenas' = [arenas EXCEPT ![n] = first[n].next]
                       /\ heap' = Rewound(n)
                  ELSE /\ arenas' = [arenas EXCEPT ![n] = SENTINEL]
                       /\ UNCHANGED heap
               /\ lifecycle' = [lifecycle EXCEPT ![n] =
                                   IF @ \in {"Configured", "Active", "Reset"}
                                   THEN "Reset" ELSE @]
               /\ status' = "running"
               /\ last' = call
               /\ UNCHANGED <<registry, tot_mem_usage, first, stats, base,
                              bytes, dirty_heap>>

\* An arena_destroy that starts its walk at the second chunk of the chain.
DestroyFreesAfterFirst(n) == SubSeq(ChainOf(n), 2, Len(ChainOf(n)))

\* The chunks arena_destroy passes to free: the whole chain of arena n.
DestroyFrees(n) == ChainOf(n)

\* tot_mem_usage after arena_destroy(n).
DestroyUsage(n) ==
    IF core_arena_log_level >= LOG_CHUNK_MALLOCS
    THEN ToUnsigned(ToUnsigned(tot_mem_usage - arenas_mem_malloced[n])
                    - arenas_mem_mmapped[n])
    ELSE tot_mem_usage

\* A chunk after free was called on it k times: its bytes are no longer the
\* program's, only its size and the calls to free are remembered.
Freed(chunk, k) ==
    [size |-> chunk.size, next |-> NULL, chunk_sz |-> 0, begin |-> 0, end |-> 0,
     frees |-> chunk.frees + k]

\* How many times chunk c occurs in the sequence s.
Occurrences(s, c) == Cardinality({i \in 1 .. Len(s) : s[i] = c})

arena_destroy(n) ==
    /\ status = "running"
    /\ LET call == Call("destroy", n, 0)
       IN IF NotInitialized \/ n >= ARENAS_MAX
          THEN /\ Terminate("abort", call)
          ELSE LET freed == DestroyFrees(n)
               IN \* bound: on an arena without a chain the call is followed
                  \* only where it leaves tot_mem_usage alone
                  /\ \/ first[n].next # NULL
                     \/ DestroyUsage(n) = tot_mem_usage
                  /\ heap' = [c \in ChunkIds |->
                                IF Occurrences(freed, c) = 0 THEN heap[c]
                                ELSE Freed(heap[c], Occurrences(freed, c))]
                  /\ bytes' = [c \in ChunkIds |->
                                 IF Occurrences(freed, c) = 0 THEN bytes[c]
                                 ELSE {}]
                  /\ UNCHANGED dirty_heap
                  /\ tot_mem_usage' = DestroyUsage(n)
                  /\ first' = [first EXCEPT ![n].next = NULL]
                  /\ arenas' = [arenas EXCEPT ![n] = NULL]
                  /\ lifecycle' = [lifecycle EXCEPT ![n] =
                                      IF @ = "Uninitialized" THEN @ ELSE "Destroyed"]
                  /\ base' = BaseAfter(n, tot_mem_usage', base[n])
                  /\ status' = "running"
                  /\ last' = [call EXCEPT !.freed = Range(freed)]
                  /\ UNCHANGED <<registry, stats>>

(* ------------------------------------------------------------------ *)
(* _alloc, arena_alloc and arena_calloc                                 *)
(* ------------------------------------------------------------------ *)

\* A loop that stays on the cursor chunk: no advance to a linked successor.
WalkNoAdvance(h, fnext, ap, mem_pd, padding) ==
    [h |-> h, ap |-> ap,
     fit |-> mem_pd <= (EndOf(h, ap) - BeginOf(h, ap)) - padding]

\* The for loop of _alloc up to the chunk that has room or the end of the
\* chain: every chunk it advances to is reset.  fnext is first[n].next.
RECURSIVE Walk(_, _, _, _, _)
Walk(h, fnext, ap, mem_pd, padding) ==
    IF mem_pd > (EndOf(h, ap) - BeginOf(h, ap)) - padding
    THEN LET nx == NextOf(h, fnext, ap)
         IN IF nx # NULL
            THEN Walk([h EXCEPT ![nx].begin = AHS], fnext, nx, mem_pd, padding)
            ELSE [h |-> h, ap |-> ap, fit |-> FALSE]
    ELSE [h |-> h, ap |-> ap, fit |-> TRUE]

\* The size without the nominal chunk size of the arena.
RealSizeRequestOnly(n, mem_pd, padding) == mem_pd + padding + AHS

\* The size with the chunk size of the cursor chunk for that of the arena.
RealSizeOfCursorChunk(n, mem_pd, padding) ==
    MAX(mem_pd + padding + AHS,
        IF arenas[n] \in ChunkIds THEN heap[arenas[n]].chunk_sz ELSE 0)

\* The size _alloc asks malloc for at the end of the chain.
RealSize(n, mem_pd, padding) == MAX(mem_pd + padding + AHS, ToSigned(first[n].chunk_sz))

\* _alloc with the first of its two budget tests only.
AllocBudgetSizeTestOnly(real_size) == real_size > ToSigned(ARENAS_MAX_ALLOC)

\* The two budget tests of _alloc: the chunk is refused.
AllocBudgetRefuses(real_size) ==
    \/ real_size > ToSigned(ARENAS_MAX_ALLOC)
    \/ tot_mem_usage > ToUnsigned(ARENAS_MAX_ALLOC - real_size)

\* A chunk as _alloc sets it up at the end of the chain.
GrownChunk(n, real_size) ==
    LET chunk_sz == IF real_size > ToSigned(first[n].chunk_sz)
                    THEN real_size - AHS ELSE first[n].chunk_sz
    IN [size |-> real_size, next |-> NULL, chunk_sz |-> chunk_sz,
        begin |-> AHS, end |-> AHS + chunk_sz, frees |-> 0]

\* The result of an allocation that changes nothing.
Unchanged(n, outcome) ==
    [outcome |-> outcome, h |-> heap, cur |-> arenas[n], fnext |-> first[n].next,
     used |-> tot_mem_usage, granted |-> 0, chunk |-> NULL, off |-> 0,
     amount |-> 0, zero |-> {}]

\* The offsets the loop "for (zptr = begin - (padding + 1); zptr < begin;
\* zptr++) *zptr = 0" writes to, for the value begin has after the bump.
ZeroTail(begin, padding) == (begin - (padding + 1)) .. (begin - 1)

\* ptr = ap->begin; ap->begin += amount, and the bytes in zero are set to 0.
Serve(h, fnext, ap, amount, granted, zero) ==
    [outcome |-> "ptr", h |-> [h EXCEPT ![ap].begin = @ + amount], cur |-> ap,
     fnext |-> fnext, used |-> ToUnsigned(tot_mem_usage + granted),
     granted |-> granted, chunk |-> ap, off |-> h[ap].begin, amount |-> amount,
     zero |-> zero]

\* The size test with only its first half.
ImpossibleRequestZeroOnly(mem_sz) == mem_sz = 0

\* "First reject anything nonsensical or excessively large": NULL is returned.
ImpossibleRequest(mem_sz) == mem_sz = 0 \/ mem_sz > PTRDIFF_MAX

\* _alloc up to its malloc: it serves the request from a linked chunk,
\* returns NULL, ends the process, or calls malloc(granted) with the cursor
\* at the end of the chain.
_alloc(n, mem_sz) ==
    IF ImpossibleRequest(mem_sz) THEN Unchanged(n, "null")
    ELSE
    LET mem_pd == mem_sz
        padding == Padding(mem_pd)
        w == Walk(heap, first[n].next, arenas[n], mem_pd, padding)
        real_size == RealSize(n, mem_pd, padding)
        walked == [Unchanged(n, "null") EXCEPT !.h = w.h, !.cur = w.ap]
    IN IF w.fit THEN Serve(w.h, first[n].next, w.ap, mem_pd + padding, 0,
                           ZeroTail(w.h[w.ap].begin + mem_pd + padding, padding))
       ELSE IF mem_pd > PTRDIFF_MAX - AHS - padding THEN walked
       ELSE IF AllocBudgetRefuses(real_size) THEN [walked EXCEPT !.outcome = "exit"]
       ELSE [walked EXCEPT !.outcome = "malloc", !.granted = real_size,
                           !.amount = mem_pd + padding,
                           !.zero = ZeroTail(AHS + mem_pd + padding, padding)]

\* tot_mem_usage += real_size before the test of malloc's answer.
MallocFailedCharged(r) ==
    [r EXCEPT !.outcome = "null", !.used = ToUnsigned(tot_mem_usage + r.granted),
              !.granted = 0, !.amount = 0, !.zero = {}]

\* malloc returned NULL: _alloc returns NULL, the cursor stays at the end.
MallocFailed(r) ==
    [r EXCEPT !.outcome = "null", !.granted = 0, !.amount = 0, !.zero = {}]

\* A growth that obtains two blocks and links the second.
GrownTwice(n, r) ==
    LET c == Len(r.h) + 2
        linked == IF r.cur = SENTINEL THEN r.h ELSE [r.h EXCEPT ![r.cur].next = c]
        fnext == IF r.cur = SENTINEL THEN c ELSE r.fnext
    IN Serve(Append(Append(linked, GrownChunk(n, r.granted)),
                    GrownChunk(n, r.granted)),
             fnext, c, r.amount, r.granted, r.zero)

\* A growth that serves from the new block without linking it.
GrownUnlinked(n, r) ==
    LET c == Len(r.h) + 1
    IN Serve(Append(r.h, GrownChunk(n, r.granted)), r.fnext, c, r.amount,
             r.granted, r.zero)

\* malloc returned a block: it is linked after the cursor (the sentinel's
\* next is first[n].next) and the request is served from its start.
Grown(n, r) ==
    LET c == Len(r.h) + 1
        linked == IF r.cur = SENTINEL THEN r.h ELSE [r.h EXCEPT ![r.cur].next = c]
        fnext == IF r.cur = SENTINEL THEN c ELSE r.fnext
    IN Serve(Append(linked, GrownChunk(n, r.granted)), fnext, c, r.amount,
             r.granted, r.zero)

\* The chunk size a request of mem_pd padded bytes makes arena n ask malloc
\* for, 0 when a linked chunk serves it.
GrowthNeed(n, mem_pd) ==
    IF arenas[n] = NULL THEN 0
    ELSE IF Walk(heap, first[n].next, arenas[n], mem_pd, 0).fit THEN 0
    ELSE RealSize(n, mem_pd, 0)

\* The size tests of arena_alloc before it looks at the chunk: fatal.
AllocRefuses(mem_sz, mem_pd) ==
    \/ mem_pd < ToSigned(mem_sz)
    \/ mem_pd > PTRDIFF_MAX - AHS
    \/ mem_pd > ToSigned(ARENAS_MAX_ALLOC)
    \/ mem_pd > ToSigned(ToUnsigned(ARENAS_MAX_ALLOC - tot_mem_usage))

\* A fast path that adds MAX_ALIGN to every bump.
FastPathExtraAlways(n, mem_pd, padding) ==
    LET ap == arenas[n]
    IN Serve(heap, first[n].next, ap, mem_pd + MAX_ALIGN, 0,
             ZeroTail(BeginOf(heap, ap) + mem_pd, padding))

\* The fast path: the cursor chunk has room; the last byte of the request
\* and its padding are set to 0; the bump adds MAX_ALIGN when more than
\* MAX_ALIGN bytes remain after the request.
FastPath(n, mem_pd, padding) ==
    LET ap == arenas[n]
        gauge == BeginOf(heap, ap) + mem_pd
        bump == IF gauge < EndOf(heap, ap) - MAX_ALIGN
                THEN mem_pd + MAX_ALIGN ELSE mem_pd
    IN Serve(heap, first[n].next, ap, bump, 0, ZeroTail(gauge, padding))

\* arena_alloc(n, mem_sz) on an initialized registry and an arena in range,
\* up to the malloc of _alloc.
AllocOutcome(n, mem_sz) ==
    IF ImpossibleRequest(mem_sz) THEN Unchanged(n, "null")
    ELSE IF arenas[n] = NULL THEN Unchanged(n, "segv")
    ELSE
    LET mem_pd == mem_sz + Padding(mem_sz)
    IN IF AllocRefuses(mem_sz, mem_pd) THEN Unchanged(n, "exit")
       ELSE IF BeginOf(heap, arenas[n]) + mem_pd > EndOf(heap, arenas[n])
            THEN _alloc(n, mem_pd)
            ELSE FastPath(n, mem_pd, Padding(mem_sz))

\* A result whose writes go past the block malloc returned for the chunk:
\* the write lands in what follows the block, or the process faults.
WriteOutcomes(r) ==
    IF r.outcome = "ptr" /\ \E o \in r.zero : o >= r.h[r.chunk].size
    THEN {r, [r EXCEPT !.outcome = "segv"]}
    ELSE {r}

\* The results arena_alloc can have: where it calls malloc, one for each
\* answer of malloc.
AllocResults(n, mem_sz) ==
    LET r == AllocOutcome(n, mem_sz)
    IN UNION {WriteOutcomes(x) :
                 x \in IF r.outcome = "malloc"
                       THEN {MallocFailed(r), Grown(n, r)} ELSE {r}}

\* The bytes of the chunks when the result r is reached, before its writes:
\* a chunk just granted holds what malloc left in it.
BytesBefore(r) ==
    IF r.granted > 0 THEN Append(bytes, Fresh(r.h[Len(r.h)])) ELSE bytes

\* The bytes of the chunks after the writes of the result r.
BytesAfter(r) ==
    IF r.outcome = "ptr"
    THEN [BytesBefore(r) EXCEPT ![r.chunk] = @ \ r.zero]
    ELSE BytesBefore(r)

\* The state after an allocation call on arena n with result r.
ApplyAlloc(call, n, r, need) ==
    IF r.outcome \notin {"ptr", "null"}
    THEN Terminate(r.outcome, [call EXCEPT !.need = need])
    ELSE
    /\ r.granted > 0 => Len(heap) < MaxChunks
    /\ heap' = r.h
    /\ bytes' = BytesAfter(r)
    /\ UNCHANGED dirty_heap
    /\ arenas' = [arenas EXCEPT ![n] = r.cur]
    /\ first' = [first EXCEPT ![n].next = r.fnext]
    /\ tot_mem_usage' = r.used
    /\ IF r.granted > 0 THEN LogChunk(n, r.granted) ELSE UNCHANGED stats
    /\ status' = "running"
    /\ lifecycle' = [lifecycle EXCEPT ![n] =
                        IF @ \in {"Configured", "Active", "Reset"}
                        THEN "Active" ELSE @]
    /\ base' = BaseAfter(n, r.used,
                   IF lifecycle[n] \in {"Uninitialized", "Destroyed"}
                      /\ r.granted > 0
                   THEN Untracked ELSE base[n])
    /\ last' = [call EXCEPT !.outcome = r.outcome, !.chunk = r.chunk,
                   !.off = r.off, !.granted = r.granted, !.need = need]
    /\ UNCHANGED registry

\* An arena_alloc that tests the size before the arena id.
AllocArgsSizeFirst(n, mem_sz) ==
    IF NotInitialized THEN "abort"
    ELSE IF ImpossibleRequest(mem_sz) THEN "null"
    ELSE IF n >= ARENAS_MAX THEN "abort"
    ELSE "ok"

\* The tests of arena_alloc on its arguments, in the order of the code: the
\* assert, the arena id, the size.
AllocArgs(n, mem_sz) ==
    IF NotInitialized THEN "abort"
    ELSE IF n >= ARENAS_MAX THEN "abort"
    ELSE IF ImpossibleRequest(mem_sz) THEN "null"
    ELSE "ok"

\* return NULL before any array is read.
ReturnNull(call) ==
    /\ status' = "running"
    /\ last' = [call EXCEPT !.outcome = "null"]
    /\ UNCHANGED <<registry, tot_mem_usage, first, arenas, heap, stats,
                   lifecycle, base, bytes, dirty_heap>>

arena_alloc(n, mem_sz) ==
    /\ status = "running"
    /\ LET call == Call("alloc", n, mem_sz)
           args == AllocArgs(n, mem_sz)
       IN IF args = "abort" THEN Terminate("abort", call)
          ELSE IF args = "null" THEN ReturnNull(call)
          ELSE \E r \in AllocResults(n, mem_sz) :
                  ApplyAlloc(call, n, r,
                             GrowthNeed(n, mem_sz + Padding(mem_sz)))

\* An arena_calloc that leaves the zeroing to arena_alloc.
ClearedByAllocOnly(off, mem_ll) == {}

\* The offsets memset(ptr, 0, mem_ll) writes to.
Cleared(off, mem_ll) == off .. (off + mem_ll - 1)

\* The results of arena_calloc from the results of its arena_alloc: memset
\* on NULL faults, memset on a pointer clears the block.
CallocResults(n, mem_ll) ==
    UNION {WriteOutcomes(IF r.outcome = "null" THEN [r EXCEPT !.outcome = "segv"]
                         ELSE IF r.outcome = "ptr"
                         THEN [r EXCEPT !.zero = @ \cup Cleared(r.off, mem_ll)]
                         ELSE r) : r \in AllocResults(n, mem_ll)}

\* The tests of arena_calloc on the product before it calls arena_alloc.
CallocRefuses(mem_ll) ==
    \/ mem_ll > PTRDIFF_MAX
    \/ mem_ll > ToSigned(ARENAS_MAX_ALLOC)
    \/ ToUnsigned(mem_ll) > ToUnsigned(ARENAS_MAX_ALLOC - tot_mem_usage)

arena_calloc(n, nelem, mem_sz) ==
    /\ status = "running"
    /\ LET call == [Call("calloc", n, nelem * mem_sz)
                       EXCEPT !.nelem = nelem, !.elsz = mem_sz]
       IN IF NotInitialized THEN Terminate("abort", call)
          ELSE IF n >= ARENAS_MAX THEN Terminate("exit", call)
          ELSE IF mem_sz = 0 THEN Terminate("abort", call)
          ELSE IF nelem > SIZE_MAX \div mem_sz THEN Terminate("exit", call)
          ELSE LET mem_ll == ToSigned(ToUnsigned(nelem * mem_sz))
               IN IF mem_ll <= 0 THEN ReturnNull(call)
                  ELSE IF CallocRefuses(mem_ll)
                  THEN Terminate("exit", call)
                  ELSE \E r \in CallocResults(n, mem_ll) :
                          ApplyAlloc([call EXCEPT !.stale =
                                        IF r.outcome = "ptr"
                                        THEN Cardinality(BytesBefore(r)[r.chunk]
                                                 \cap (r.off .. (r.off + mem_ll - 1)))
                                        ELSE 0],
                                     n, r, GrowthNeed(n, mem_ll + Padding(mem_ll)))

(* ------------------------------------------------------------------ *)
(* The specification                                                   *)
(* ------------------------------------------------------------------ *)

Next ==
    \/ \E count \in 1 .. MaxArenas, avail \in RamAvail, level \in LogLevels,
          ok \in BOOLEAN :
          arena_init_arenas(count, avail, level, ok) /\ UNCHANGED warm
    \/ \E n \in 0 .. ARENAS_MAX, sz \in ChunkSizes :
          arena_create(n, sz) /\ UNCHANGED warm
    \/ \E n \in 0 .. ARENAS_MAX, sz \in MemSizes :
          arena_alloc(n, sz) /\ UNCHANGED warm
    \/ \E n \in 0 .. ARENAS_MAX, a \in CallocArgs :
          arena_calloc(n, a[1], a[2]) /\ UNCHANGED warm
    \/ \E n \in 0 .. ARENAS_MAX : arena_dealloc(n) /\ UNCHANGED warm
    \/ \E n \in 0 .. ARENAS_MAX : arena_destroy(n) /\ UNCHANGED warm

Spec == Init /\ [][Next]_vars

(* ------------------------------------------------------------------ *)
(* Warm reuse: the requests of arena 0 are recorded during a lifetime  *)
(* and, after arena_dealloc(0), made again in the same order.          *)
(* ------------------------------------------------------------------ *)

InUse(n) == arenas_initialized /\ lifecycle[n] \in {"Configured", "Active", "Reset"}

\* No replay is under way, or it has gone through the whole script.
NotReplaying == replay \in {Idle, Len(script)}

WarmInit(avail, level) ==
    /\ arena_init_arenas(1, avail, level, TRUE)
    /\ UNCHANGED warm

WarmCreate(chunk_sz) ==
    /\ arenas_initialized /\ ~InUse(0)
    /\ arena_create(0, chunk_sz)
    /\ script' = <<>>
    /\ replay' = Idle

\* A request of the lifetime: recorded when it is served.
WarmAlloc(mem_sz) ==
    /\ InUse(0) /\ NotReplaying /\ Len(script) < MaxScript
    /\ arena_alloc(0, mem_sz)
    /\ script' = IF last'.outcome = "ptr" THEN Append(script, mem_sz) ELSE script
    /\ replay' = Idle

WarmDealloc ==
    /\ InUse(0) /\ NotReplaying /\ script # <<>>
    /\ arena_dealloc(0)
    /\ replay' = 0
    /\ UNCHANGED script

\* The next request of the script, made again.
WarmReplay ==
    /\ replay \in 0 .. (Len(script) - 1)
    /\ arena_alloc(0, script[replay + 1])
    /\ replay' = replay + 1
    /\ UNCHANGED script

WarmDestroy ==
    /\ InUse(0)
    /\ arena_destroy(0)
    /\ script' = <<>>
    /\ replay' = Idle

NextWarm ==
    \/ \E avail \in RamAvail, level \in LogLevels : WarmInit(avail, level)
    \/ \E sz \in WarmChunkSizes : WarmCreate(sz)
    \/ \E sz \in WarmSizes : WarmAlloc(sz)
    \/ WarmDealloc
    \/ WarmReplay
    \/ WarmDestroy

SpecWarm == Init /\ [][NextWarm]_vars

(* ------------------------------------------------------------------ *)
(* One arena whose chain is walked: requests that fit no linked chunk   *)
(* after a reset.                                                      *)
(* ------------------------------------------------------------------ *)

\* chunk_sz and mem_sz arguments for the walks of the chain.
WalkChunkSizes == {72}

WalkSizes == {10, 100}

NextWalk ==
    \/ \E avail \in RamAvail :
          arena_init_arenas(1, avail, NO_ARENA_LOGGING, TRUE) /\ UNCHANGED warm
    \/ \E sz \in WalkChunkSizes : arena_create(0, sz) /\ UNCHANGED warm
    \/ \E sz \in WalkSizes : arena_alloc(0, sz) /\ UNCHANGED warm
    \/ arena_dealloc(0) /\ UNCHANGED warm
    \/ arena_destroy(0) /\ UNCHANGED warm

SpecWalk == Init /\ [][NextWalk]_vars

(* ------------------------------------------------------------------ *)
(* Memory contents: one arena, malloc returning zero pages or blocks    *)
(* full of old data, and a caller that fills the blocks it is given.    *)
(* ------------------------------------------------------------------ *)

\* chunk_sz and mem_sz arguments where the memory contents are followed.
ZeroChunkSizes == {72}

ZeroSizes == {10}

InitZero == Boot /\ dirty_heap \in BOOLEAN

\* The caller writes non-zero bytes over the block it was last given.
Store ==
    /\ status = "running"
    /\ last.op \in {"alloc", "calloc"} /\ last.outcome = "ptr"
    /\ bytes' = [bytes EXCEPT ![last.chunk] =
                    @ \cup (last.off .. (last.off + last.sz - 1))]
    /\ last' = [last EXCEPT !.op = "store"]
    /\ UNCHANGED <<status, registry, tot_mem_usage, first, arenas, heap,
                   dirty_heap, stats, lifecycle, base, warm>>

NextZero ==
    \/ \E avail \in RamAvail :
          arena_init_arenas(1, avail, NO_ARENA_LOGGING, TRUE) /\ UNCHANGED warm
    \/ \E sz \in ZeroChunkSizes :
          arena_create(0, sz) /\ Len(heap') <= ZeroChunks /\ UNCHANGED warm
    \/ \E sz \in ZeroSizes :
          arena_alloc(0, sz) /\ Len(heap') <= ZeroChunks /\ UNCHANGED warm
    \/ \E a \in CallocArgs :
          arena_calloc(0, a[1], a[2]) /\ Len(heap') <= ZeroChunks
          /\ UNCHANGED warm
    \/ arena_dealloc(0) /\ UNCHANGED warm
    \/ arena_destroy(0) /\ UNCHANGED warm
    \/ Store

SpecZero == InitZero /\ [][NextZero]_vars

(* ------------------------------------------------------------------ *)
(* Properties                                                          *)
(* ------------------------------------------------------------------ *)

LiveStates == {"Configured", "Active", "Reset"}

\* The bytes obtained from calloc and malloc and not released: the registry
\* arrays and every chunk free was not called on.
Held ==
    RegistryHeld(ARENAS_MAX, core_arena_log_level)
    + SumSizes({c \in ChunkIds : Live(c)})

\* C1: every successful arena_alloc(n, s) with s > 0 returns a pointer p
\* such that [p, p+s) lies inside the bytes malloc returned for one chunk
\* linked in the chain of arena n, past the chunk's header, and p is a
\* multiple of MAX_ALIGN.
C1_PointerInsideChunk ==
    (last.op = "alloc" /\ last.outcome = "ptr") =>
        /\ last.chunk \in Range(ChainOf(last.n))
        /\ Live(last.chunk)
        /\ last.off >= AHS
        /\ last.off + last.sz <= heap[last.chunk].size
        /\ last.off % MAX_ALIGN = 0

\* C2: after every chunk grant (by arena_create or by a growing allocation)
\* tot_mem_usage is at most ARENAS_MAX_ALLOC.
C2_GrantWithinCeiling ==
    last.granted > 0 => tot_mem_usage <= ARENAS_MAX_ALLOC

\* A grant that uses the budget up to the last byte.
C2_GrantFillsBudget ==
    /\ last.granted > 0
    /\ tot_mem_usage = ARENAS_MAX_ALLOC

\* C3: at every point the bytes held (registry arrays and live chunks) are
\* at most ARENAS_MAX_ALLOC, at every log level.
C3_HeldWithinCeiling ==
    (status = "running" /\ arenas_initialized) => Held <= ARENAS_MAX_ALLOC

\* C4: when arena_create or a growing allocation needs a chunk whose size
\* added to the bytes in use exceeds the ceiling, the process ends with
\* exit: no chunk is granted and no pointer is returned.
C4_OverBudgetIsFatal ==
    (/\ last.op \in {"create", "alloc", "calloc"}
     /\ last.need > 0
     /\ last.used + last.need > last.ceiling) =>
        /\ status = "exit"
        /\ last.outcome = "exit"
        /\ last.granted = 0
        /\ last.chunk = NULL

\* A growing arena_alloc whose request alone fits what is left of the
\* budget and whose chunk does not: _alloc ends the process.
C4_GrowthRefused ==
    /\ last.op = "alloc"
    /\ last.need > 0
    /\ last.sz <= last.ceiling - last.used
    /\ last.used + last.need > last.ceiling
    /\ status = "exit"

\* C5: arena_destroy(n) at the end of a lifetime of arena n leaves
\* tot_mem_usage at the value it had just before the first arena_create(n)
\* (moved by what the other arenas did since), at every log level and after
\* any number of lifetimes.
C5_LifetimeReturnsBudget ==
    (/\ last.op = "destroy" /\ last.outcome = "ok"
     /\ last.phase \in LiveStates
     /\ base[last.n] # Untracked) =>
        tot_mem_usage = base[last.n]

\* C6: arena_create(n, c) after arena_destroy(n) leaves arena n as a first
\* arena_create(n, c) does: the nominal chunk size of c, a chain of one
\* chunk with its cursor at the end of the header, and tot_mem_usage above
\* its value before the first create by the size of that one chunk.
C6_RecreatedLikeFresh ==
    (/\ last.op = "create" /\ last.outcome = "ok"
     /\ last.phase = "Destroyed"
     /\ base[last.n] # Untracked) =>
        /\ first[last.n].chunk_sz = last.granted
        /\ ChainOf(last.n) = <<arenas[last.n]>>
        /\ heap[arenas[last.n]].begin = AHS
        /\ tot_mem_usage = ToUnsigned(base[last.n] + last.granted)

\* C7: the first arena_alloc(n, s) after arena_dealloc(n) on an arena with
\* a first chunk, for s that fits the usable region of the first chunk,
\* returns the start of that region: the first chunk's base plus the header.
C7_ResetRewinds ==
    [][(/\ last'.op = "alloc"
        /\ last'.sz > 0
        /\ arenas_initialized
        /\ last'.n \in ArenaIds
        /\ lifecycle[last'.n] = "Reset"
        /\ first[last'.n].next # NULL
        /\ last'.sz + Padding(last'.sz)
              <= heap[first[last'.n].next].size - AHS) =>
           /\ last'.outcome = "ptr"
           /\ last'.chunk = first[last'.n].next
           /\ last'.off = AHS]_vars

\* C8: after arena_dealloc, every request of the lifetime made again is
\* served from the chunks already linked: a pointer is returned, no chunk
\* is granted, tot_mem_usage stays, and the process does not end.
C8_WarmReplayServed ==
    (replay \in 1 .. MaxScript) =>
        /\ status = "running"
        /\ last.outcome = "ptr"
        /\ last.granted = 0
        /\ tot_mem_usage = last.used

\* C9: arena_destroy(n) calls free once on every chunk of the chain of
\* arena n, all of them live and none linked in another arena's chain, on
\* no other chunk, and leaves first[n].next and arenas[n] NULL.
C9_DestroyFreesChainOnce ==
    [][(last'.op = "destroy" /\ last'.outcome = "ok") =>
          LET n == last'.n
              chain == Range(ChainOf(n))
          IN /\ Len(heap') = Len(heap)
             /\ \A c \in ChunkIds :
                   heap'[c].frees = heap[c].frees + (IF c \in chain THEN 1 ELSE 0)
             /\ \A c \in chain : Live(c)
             /\ \A m \in ArenaIds \ {n} : Range(ChainOf(m)) \cap chain = {}
             /\ last'.freed = chain
             /\ first'[n].next = NULL
             /\ arenas'[n] = NULL]_vars

\* arena_destroy has freed a chain of two chunks or more while a chunk of
\* another arena stays live and linked.
C9_ChainFreedOtherKept ==
    /\ last.op = "destroy" /\ last.outcome = "ok"
    /\ Cardinality(last.freed) >= 2
    /\ \A c \in last.freed : heap[c].frees = 1
    /\ \E m \in ArenaIds \ {last.n} :
          /\ ChainOf(m) # <<>>
          /\ \A c \in Range(ChainOf(m)) : Live(c)

\* C10: arena_alloc and arena_calloc on an arena that was never created, or
\* was destroyed and not created again, never return a pointer and never
\* grow a chunk, also after an arena_dealloc on it.
C10_DeadArenaNeverServes ==
    (/\ last.op \in {"alloc", "calloc"}
     /\ last.phase \in {"Uninitialized", "Destroyed"}) =>
        /\ last.outcome # "ptr"
        /\ last.granted = 0

Operations == {"create", "alloc", "calloc", "dealloc", "destroy"}

\* C11: arena_alloc(n, s) with s = 0 or s > PTRDIFF_MAX on an arena id in
\* range returns NULL, the process goes on, and the cursor, the chain, the
\* chunks, tot_mem_usage and the statistics are what they were.
C11_ImpossibleRequestReturnsNull ==
    [][(/\ last'.op = "alloc"
        /\ arenas_initialized
        /\ last'.n \in ArenaIds
        /\ (last'.sz = 0 \/ last'.sz > PTRDIFF_MAX)) =>
           /\ status' = "running"
           /\ last'.outcome = "null"
           /\ last'.chunk = NULL
           /\ UNCHANGED <<registry, tot_mem_usage, first, arenas, heap,
                          stats>>]_vars

\* A request above PTRDIFF_MAX was answered with NULL on an arena whose
\* cursor chunk has served memory before.
C11_OversizeOnUsedArena ==
    /\ last.op = "alloc" /\ last.sz > PTRDIFF_MAX /\ last.outcome = "null"
    /\ status = "running"
    /\ arenas[last.n] \in ChunkIds
    /\ heap[arenas[last.n]].begin > AHS

\* C12: arena_calloc(n, nelem, mem_sz) with a product nelem * mem_sz that
\* size_t cannot hold returns NULL and the process goes on.
C12_CallocOverflowRecoverable ==
    (/\ last.op = "calloc"
     /\ last.phase \in LiveStates
     /\ last.nelem * last.elsz > SIZE_MAX) =>
        /\ status = "running"
        /\ last.outcome = "null"

\* C13: arena_calloc(n, nelem, mem_sz) with nelem * mem_sz = 0, for nelem = 0
\* as for mem_sz = 0, returns NULL and the process goes on.
C13_CallocZeroProductReturnsNull ==
    (/\ last.op = "calloc"
     /\ last.phase \in LiveStates
     /\ last.nelem * last.elsz = 0) =>
        /\ status = "running"
        /\ last.outcome = "null"

\* C14: after a successful arena_calloc(n, nelem, mem_sz) every byte of
\* the nelem * mem_sz bytes from the pointer returned is 0, whatever malloc
\* left in the chunk and whatever the caller stored there in an earlier
\* lifetime.
C14_CallocReturnsZeroes ==
    (last.op = "calloc" /\ last.outcome = "ptr") =>
        \A o \in last.off .. (last.off + last.nelem * last.elsz - 1) :
            o \notin bytes[last.chunk]

\* arena_calloc after arena_dealloc has served a block whose size is no
\* multiple of MAX_ALIGN and whose every byte was non-zero before the call,
\* stored by the caller: malloc returned zero pages.
C14_StaleBlockCleared ==
    /\ last.op = "calloc" /\ last.outcome = "ptr"
    /\ last.phase = "Reset"
    /\ ~dirty_heap
    /\ last.sz % MAX_ALIGN # 0
    /\ last.stale = last.sz

\* C15: every public operation called on an initialized registry with an
\* arena id n >= ARENAS_MAX ends the process by the id test (abort, exit in
\* arena_calloc), whatever its other arguments, never by a fault and never
\* with a result.
C15_BadArenaIdIsFatal ==
    [][(/\ last'.op \in Operations
        /\ arenas_initialized
        /\ last'.n >= ARENAS_MAX) =>
           /\ status' = (IF last'.op = "calloc" THEN "exit" ELSE "abort")
           /\ last'.outcome = status']_vars

\* arena_alloc with a size of 0 on an arena id past the registry: abort.
C15_ZeroSizeOnBadId ==
    /\ last.op = "alloc" /\ last.sz = 0
    /\ last.n >= 1 /\ last.phase = "none"
    /\ status = "abort"

\* tot_mem_usage in the run of the same calls with CORE_ARENA_LOG_LEVEL = 0,
\* as long as every call has had the same outcome there: the charges of
\* arena_init_arenas without the logging arrays, and every chunk malloc has
\* returned, since arena_destroy subtracts nothing at that level.
UsedAtLevel0 ==
    ToUnsigned(ChargeAll(RegistryCharges(ARENAS_MAX, NO_ARENA_LOGGING), 0,
                         ARENAS_MAX_ALLOC).used
               + SumSizes(ChunkIds))

\* C16: at every log level tot_mem_usage is what it is at log level 0 after
\* the same calls.
C16_LoggingIsObserver ==
    (status = "running" /\ arenas_initialized) => tot_mem_usage = UsedAtLevel0

\* C17: arena_dealloc(n) leaves tot_mem_usage, the sentinel (first chunk and
\* nominal chunk size), the links, sizes and limits of every chunk, the bump
\* cursor of every chunk but the first of arena n, the other arenas' cursors
\* and the statistics as they were; with a chain it sets arenas[n] to the
\* first chunk and that chunk's bump cursor to the end of its header.
C17_DeallocKeepsMemory ==
    [][(last'.op = "dealloc" /\ last'.outcome = "ok") =>
          LET n == last'.n
          IN /\ UNCHANGED <<registry, tot_mem_usage, first, stats>>
             /\ Len(heap') = Len(heap)
             /\ \A c \in ChunkIds :
                   /\ [heap'[c] EXCEPT !.begin = 0] = [heap[c] EXCEPT !.begin = 0]
                   /\ c # first[n].next => heap'[c].begin = heap[c].begin
             /\ \A m \in ArenaIds \ {n} : arenas'[m] = arenas[m]
             /\ first[n].next # NULL =>
                   /\ arenas'[n] = first[n].next
                   /\ heap'[first[n].next].begin = AHS]_vars

\* arena_dealloc on a chain of two chunks: the cursor is on the first, and
\* the second still has its bump cursor past its header.
C17_ResetAfterGrowth ==
    /\ last.op = "dealloc" /\ last.outcome = "ok"
    /\ Len(ChainOf(last.n)) >= 2
    /\ arenas[last.n] = ChainOf(last.n)[1]
    /\ heap[ChainOf(last.n)[1]].begin = AHS
    /\ heap[ChainOf(last.n)[2]].begin > AHS

\* C18: every public operation called before arena_init_arenas ends the
\* process by the failed assert.
C18_UninitializedIsFatal ==
    [][(last'.op \in Operations /\ ~arenas_initialized) =>
          /\ status' = "abort"
          /\ last'.outcome = "abort"]_vars

\* arena_calloc was called first of all, and the assert ended the process.
C18_CallocBeforeInit ==
    /\ last.op = "calloc" /\ last.ceiling = 0 /\ last.phase = "none"
    /\ last.nelem > 0 /\ last.elsz > 0
    /\ status = "abort"

\* C19: after arena_destroy(n) and arena_create(n, c) at log level 1 or 2,
\* the chunk statistics of arena n count the one chunk granted by that
\* arena_create: its bytes, and one chunk.
C19_StatsOfLatestLifetime ==
    (/\ last.op = "create" /\ last.outcome = "ok"
     /\ last.phase = "Destroyed"
     /\ core_arena_log_level >= LOG_CHUNK_MALLOCS) =>
        /\ arenas_mem_malloced[last.n] + arenas_mem_mmapped[last.n] = last.granted
        /\ arenas_mem_malloced_count[last.n] = 1

\* C20: when the request with its padding fits between the bump cursor and
\* the limit of the cursor chunk, arena_alloc returns the bump cursor as it
\* was and moves it by the request plus its padding, no more.
C20_FastPathBumpsExactly ==
    [][(/\ last'.op = "alloc" /\ last'.outcome = "ptr"
        /\ arenas_initialized
        /\ last'.n \in ArenaIds
        /\ arenas[last'.n] \in ChunkIds
        /\ heap[arenas[last'.n]].begin + last'.sz + Padding(last'.sz)
              <= heap[arenas[last'.n]].end) =>
           LET ap == arenas[last'.n]
           IN /\ last'.chunk = ap
              /\ last'.off = heap[ap].begin
              /\ heap'[ap].begin = heap[ap].begin + last'.sz + Padding(last'.sz)]_vars

\* C21: an arena_alloc whose request with its padding fits between the bump
\* cursor and the limit of the cursor chunk (a chunk whose limit is its
\* capacity) returns a pointer, whatever tot_mem_usage and ARENAS_MAX_ALLOC
\* are; the process does not end.
C21_FastPathIgnoresBudget ==
    [][(/\ last'.op = "alloc"
        /\ last'.sz \in 1 .. PTRDIFF_MAX
        /\ arenas_initialized
        /\ last'.n \in ArenaIds
        /\ arenas[last'.n] \in ChunkIds
        /\ heap[arenas[last'.n]].end <= heap[arenas[last'.n]].size
        /\ heap[arenas[last'.n]].begin + last'.sz + Padding(last'.sz)
              <= heap[arenas[last'.n]].end) =>
           /\ status' = "running"
           /\ last'.outcome = "ptr"]_vars

\* C22: for every chunk the process owns, first or grown, the limit is the
\* chunk's base plus the number of bytes malloc returned for it.
C22_LimitIsCapacity ==
    \A c \in ChunkIds : Live(c) => heap[c].end = heap[c].size

\* C23: a growing arena_alloc or arena_calloc asks malloc for, and adds to
\* tot_mem_usage, exactly the larger of request + padding + header and the
\* nominal chunk size of the arena.
C23_GrowthSize ==
    [][(last'.op \in {"alloc", "calloc"} /\ last'.granted > 0) =>
          LET want == MAX(last'.sz + Padding(last'.sz) + AHS,
                          first[last'.n].chunk_sz)
          IN /\ last'.granted = want
             /\ Len(heap') = Len(heap) + 1
             /\ heap'[Len(heap')].size = want
             /\ tot_mem_usage' = ToUnsigned(tot_mem_usage + want)]_vars

\* A growth in which the nominal chunk size is the larger of the two.
C23_NominalWins ==
    /\ last.op = "alloc" /\ last.granted > 0
    /\ last.granted = first[last.n].chunk_sz
    /\ last.granted > last.sz + Padding(last.sz) + AHS

C25_GrowthOnlyAtTail ==
    [][(/\ last'.op \in {"alloc", "calloc"} /\ last'.outcome = "ptr"
        /\ arenas_initialized
        /\ last'.n \in ArenaIds) =>
          LET n == last'.n
              cur == arenas[n]
              need == last'.sz + Padding(last'.sz)
              rest == ChainFrom(heap, NextOf(heap, first[n].next, cur))
              fitting == {i \in 1 .. Len(rest) : need <= heap[rest[i]].end - AHS}
              tail == IF rest = <<>> THEN cur ELSE rest[Len(rest)]
          IN IF need <= EndOf(heap, cur) - BeginOf(heap, cur)
             THEN /\ last'.granted = 0
                  /\ last'.chunk = cur
                  /\ last'.off = heap[cur].begin
             ELSE IF fitting # {}
             THEN LET i == CHOOSE k \in fitting : \A j \in fitting : k <= j
                  IN /\ last'.granted = 0
                     /\ Len(heap') = Len(heap)
                     /\ last'.chunk = rest[i]
                     /\ last'.off = AHS
                     /\ arenas'[n] = rest[i]
             ELSE /\ last'.granted > 0
                  /\ Len(heap') = Len(heap) + 1
                  /\ last'.chunk = Len(heap')
                  /\ NextOf(heap', first'[n].next, tail) = Len(heap')]_vars

\* A request was served from the second chunk of a chain, at the end of its
\* header, without a call to malloc.
C25_ServedFromSuccessor ==
    /\ last.op = "alloc" /\ last.outcome = "ptr" /\ last.granted = 0
    /\ Len(ChainOf(last.n)) >= 2
    /\ last.chunk = ChainOf(last.n)[2]
    /\ last.off = AHS

\* C26: arena_alloc, arena_calloc and arena_dealloc leave the nominal chunk
\* size of every arena as it is, and a growth for a request that with its
\* padding and the header is within the nominal chunk size obtains exactly
\* the nominal chunk size, also after an oversized chunk.
C26_NominalSizeFixed ==
    [][/\ (/\ last'.op \in {"alloc", "calloc", "dealloc"}
           /\ arenas_initialized /\ arenas_initialized') =>
             \A m \in ArenaIds : first'[m].chunk_sz = first[m].chunk_sz
       /\ (/\ last'.op \in {"alloc", "calloc"} /\ last'.granted > 0
           /\ last'.sz + Padding(last'.sz) + AHS <= first[last'.n].chunk_sz) =>
             /\ last'.granted = first[last'.n].chunk_sz
             /\ heap'[Len(heap')].size = first[last'.n].chunk_sz]_vars

\* A chain of a first chunk, an oversized chunk and a chunk of the nominal
\* size grown after it for a request smaller than the nominal size.
C26_NominalAfterOversized ==
    /\ last.op = "alloc" /\ last.granted > 0
    /\ Len(ChainOf(last.n)) = 3
    /\ heap[ChainOf(last.n)[2]].size > first[last.n].chunk_sz
    /\ heap[ChainOf(last.n)[3]].size = first[last.n].chunk_sz
    /\ last.chunk = ChainOf(last.n)[3]
    /\ last.sz + Padding(last.sz) + AHS < first[last.n].chunk_sz

\* C27: an arena_alloc that returns NULL for a request of possible size
\* (malloc has refused the chunk) does not end the process and leaves
\* tot_mem_usage, the number of chunks, the sentinel and every link of every
\* chain as they were.
C27_RefusedGrowthReturnsNull ==
    [][(/\ last'.op = "alloc" /\ last'.outcome = "null"
        /\ last'.sz \in 1 .. PTRDIFF_MAX) =>
           /\ status' = "running"
           /\ last'.need > 0
           /\ tot_mem_usage' = tot_mem_usage
           /\ Len(heap') = Len(heap)
           /\ first' = first
           /\ \A c \in ChunkIds : heap'[c].next = heap[c].next
           /\ UNCHANGED <<registry, stats>>]_vars

\* malloc has refused a chunk to a live arena: NULL, the process goes on and
\* the last chunk of the chain has no successor.
C27_GrowthRefusedByMalloc ==
    /\ last.op = "alloc" /\ last.outcome = "null" /\ last.sz > 0
    /\ last.need > 0
    /\ last.phase \in LiveStates
    /\ status = "running"
    /\ arenas[last.n] \in ChunkIds
    /\ heap[arenas[last.n]].next = NULL

\* C28: an arena_calloc on a live arena that needs a chunk the budget allows
\* does not end the process: it returns a pointer, or NULL when malloc
\* refuses the chunk.
C28_CallocRefusedGrowthRecoverable ==
    (/\ last.op = "calloc"
     /\ last.phase \in LiveStates
     /\ last.need > 0
     /\ last.used + last.need <= last.ceiling) =>
        status = "running"

\* C29: after a successful arena_create(n, chunk_sz) the nominal chunk size
\* of arena n is chunk_sz - MALLOC_PTR_SIZE rounded down to a multiple of
\* MAX_ALIGN; the first chunk has that many bytes, its limit is that size,
\* its bump cursor is at the end of the header, and tot_mem_usage has grown
\* by that size.
C29_NominalIsEffectiveSize ==
    [][(last'.op = "create" /\ last'.outcome = "ok") =>
          LET n == last'.n
              c == Len(heap')
              eff == (last'.sz - MALLOC_PTR_SIZE)
                     - ((last'.sz - MALLOC_PTR_SIZE) % MAX_ALIGN)
          IN /\ Len(heap') = Len(heap) + 1
             /\ first'[n] = [next |-> c, chunk_sz |-> eff]
             /\ heap'[c].size = eff
             /\ heap'[c].end = eff
             /\ heap'[c].begin = AHS
             /\ last'.granted = eff
             /\ tot_mem_usage' = ToUnsigned(tot_mem_usage + eff)]_vars

\* arena_create has succeeded with a chunk_sz that was rounded down.
C29_RoundedDown ==
    /\ last.op = "create" /\ last.outcome = "ok"
    /\ (last.sz - MALLOC_PTR_SIZE) % MAX_ALIGN # 0
    /\ first[last.n].chunk_sz < last.sz - MALLOC_PTR_SIZE

\* C30 as stated: after a successful arena_create the usable region of the
\* first chunk (limit - end of header) holds at least one allocation of the
\* size of a header.
C30_UsableHoldsHeader ==
    (last.op = "create" /\ last.outcome = "ok") =>
        heap[first[last.n].next].end - AHS >= AHS

\* C30 amended: arena_create ends the process for chunk_sz = 0, for
\* chunk_sz > PTRDIFF_MAX and for every chunk_sz whose effective size is not
\* above the size of a header; when it succeeds the usable region of the
\* first chunk is a positive multiple of MAX_ALIGN: it holds at least one
\* allocation of up to MAX_ALIGN bytes.
C30_UsableHoldsAlignedBlock ==
    [][(last'.op = "create" /\ arenas_initialized /\ last'.n \in ArenaIds) =>
          LET eff == (last'.sz - MALLOC_PTR_SIZE)
                     - ((last'.sz - MALLOC_PTR_SIZE) % MAX_ALIGN)
          IN /\ (last'.sz = 0 \/ last'.sz > PTRDIFF_MAX \/ eff <= AHS) =>
                   (status' \in {"abort", "exit"} /\ last'.outcome = status')
             /\ last'.outcome = "ok" =>
                   /\ heap'[Len(heap')].end - AHS >= MAX_ALIGN
                   /\ (heap'[Len(heap')].end - AHS) % MAX_ALIGN = 0]_vars

\* arena_create has succeeded with the smallest usable region: MAX_ALIGN.
C30_SmallestChunk ==
    /\ last.op = "create" /\ last.outcome = "ok"
    /\ heap[first[last.n].next].end - AHS = MAX_ALIGN

\* C31: when malloc refuses the first chunk (the size and budget tests of
\* _arena_init have passed), arena_create ends the process with its
\* diagnostic and abort().
C31_RefusedFirstChunkAborts ==
    [][(/\ last'.op = "create"
        /\ arenas_initialized
        /\ last'.n \in ArenaIds
        /\ last'.sz \in 1 .. PTRDIFF_MAX
        /\ _arena_init(last'.sz).outcome = "malloc"
        /\ last'.outcome # "ok") =>
           status' = "abort"]_vars

\* C32: a budget check that passes has used + amount <= ceiling in unbounded
\* arithmetic: after a successful arena_init_arenas the bytes charged are
\* within the ceiling, and a chunk granted to arena_create, arena_alloc or
\* arena_calloc fits between the used counter and the ceiling.
C32_BudgetChecksExact ==
    [][/\ (last'.op = "init" /\ status' = "running" /\ arenas_initialized') =>
             tot_mem_usage' <= ARENAS_MAX_ALLOC'
       /\ (last'.op \in {"create", "alloc", "calloc"} /\ last'.granted > 0) =>
             last'.used + last'.granted <= last'.ceiling]_vars

\* C33: a successful arena_alloc sets every byte between the end of the
\* payload and the new bump cursor to zero and leaves every byte of the
\* payload as it was, on the fast path and on the path through _alloc.
C33_OnlyPaddingTailWritten ==
    [][(last'.op = "alloc" /\ last'.outcome = "ptr") =>
          LET c == last'.chunk
              p == last'.off
              before == IF c <= Len(bytes) THEN bytes[c]
                        ELSE IF dirty_heap THEN AHS .. (heap'[c].end - 1) ELSE {}
          IN /\ \A o \in (p + last'.sz) .. (heap'[c].begin - 1) : o \notin bytes'[c]
             /\ \A o \in p .. (p + last'.sz - 1) :
                   (o \in bytes'[c]) <=> (o \in before)]_vars

\* The position of chunk x in the chain s.
PositionIn(s, x) == CHOOSE i \in 1 .. Len(s) : s[i] = x

\* C34: every arena_alloc returns or ends the process; a call obtains at
\* most one block from malloc, the chain keeps its chunks in their order
\* and gains at most that block at its end, and the cursor moves forward by
\* at most one step per chunk linked after it plus one for a new block.
C34_OneChunkPerCall ==
    [][(last'.op = "alloc" /\ arenas_initialized /\ last'.n \in ArenaIds) =>
          /\ \/ status' = "running" /\ last'.outcome \in {"ptr", "null"}
             \/ status' \in {"exit", "segv"} /\ last'.outcome = status'
          /\ status' = "running" =>
                LET n == last'.n
                    old == ChainOf(n)
                    new == ChainFrom(heap', first'[n].next)
                    got == Len(heap') - Len(heap)
                IN /\ got = (IF last'.granted > 0 THEN 1 ELSE 0)
                   /\ Len(new) = Len(old) + got
                   /\ SubSeq(new, 1, Len(old)) = old
                   /\ arenas[n] \in Range(old) =>
                         /\ arenas'[n] \in Range(new)
                         /\ PositionIn(new, arenas'[n]) >= PositionIn(old, arenas[n])
                         /\ PositionIn(new, arenas'[n]) - PositionIn(old, arenas[n])
                               <= (Len(old) - PositionIn(old, arenas[n])) + got]_vars

\* After a reset a request went past the first and the second chunk and was
\* served from a third, obtained by this call.
C34_WalkedThenGrew ==
    /\ last.op = "alloc" /\ last.outcome = "ptr" /\ last.granted > 0
    /\ last.phase = "Reset"
    /\ Len(ChainOf(last.n)) = 3
    /\ last.chunk = ChainOf(last.n)[3]
    /\ arenas[last.n] = last.chunk

C36_NoChunkLeaked ==
    arenas_initialized =>
        \A c \in ChunkIds :
            Live(c) => Cardinality({n \in ArenaIds : c \in Range(ChainOf(n))}) = 1

====
